---------------------------- MODULE Spec2Model ----------------------------
(***************************************************************************)
(* English-Level-Quiz: the quiz session engine of the Telegram bot         *)
(* (src/bot.py, aiogram FSM + sqlite) and of the web app (src/app.py,      *)
(* Flask cookie session + the same sqlite file).                           *)
(*                                                                         *)
(* Scheduling.  The bot runs on one asyncio loop; aiogram starts one task  *)
(* per update and the dispatcher is built without events isolation, so two *)
(* handlers of one user interleave at every await that really suspends,    *)
(* i.e. at Telegram I/O (edit_text, answer, answer_document).  The         *)
(* MemoryStorage calls (get_data, update_data, set_state, clear) and the   *)
(* sqlite helpers never suspend.  A handler is therefore atomic up to its  *)
(* first I/O; finish_quiz is the one handler that writes state after I/O   *)
(* (state.clear(), line 719) and is modelled in two steps.                 *)
(*                                                                         *)
(* The web session is the browser's cookie: a request works on the copy it *)
(* was sent with and the browser keeps the cookie of the last response.    *)
(* WebSubmitAnswer is a request answered before the next one is sent;      *)
(* WebSendAnswer and WebReceiveAnswer split a request that overlaps others.*)
(***************************************************************************)
EXTENDS Integers, Sequences, FiniteSets, TLC

\* ------------------------------------------------------------------ bounds
MaxStarts == 1       \* sessions created (both front-ends together)
MaxPending == 2      \* finish_quiz coroutines of one user suspended at their I/O
MaxDeletes == 1      \* admin question deletions explored
MaxDay == 2          \* calendar days explored after day 0
MaxTotal == 20       \* largest total the level rule is probed with
MaxQuestionId == 5   \* largest questions.id the admin operations hand out

\* ------------------------------------------------------------ program data
InitialLives == 3
WebIdOffset == 10000
OptionCount == 4            \* options of every sample question

BotUsers == {1, 10001}      \* Telegram user ids

\* ADMIN_IDS = [7782143104]: an id beyond TLC's 32-bit integers, which counts
\* only by membership; 77 stands for it
ADMIN_IDS == {77}

\* every Telegram account with FSM storage of its own
TelegramUsers == BotUsers \cup ADMIN_IDS
WebUsers == {1}             \* web_users.id
SoloBot == {1}              \* the Telegram user acting in Spec

LevelNames == <<"A1", "A2", "B1", "B2", "C1">>

\* english_levels.id of a level (AUTOINCREMENT in insertion order)
LevelId(l) == CHOOSE i \in 1..Len(LevelNames) : LevelNames[i] = l

Q(i, l, c) ==
    [id |-> i, level |-> l, correct |-> c, nopts |-> OptionCount]

\* The questions table, scaled down: three A1 rows, one B1 row and, as after
\* an admin's deletions, no row of the other levels.
SampleBank == {Q(1, "A1", 0), Q(2, "A1", 1), Q(3, "A1", 0), Q(4, "B1", 1)}

BotFilters == {"A1", "B1", "C1", "full"}    \* start_quiz_<level> buttons
WebFilters == {"A1", "B1", "ZZ"}            \* levels posted where answers follow
WebStartFilters == WebFilters \cup {"full"} \* levels posted to /api/quiz/start
Choices == {0, 1, 4}                        \* answer indexes; 4 is out of bounds
InBounds == {0, 1}                          \* the indexes the samples mark correct
FirstOption == {0}                          \* a user who always taps the first option
WebChoices == Choices \cup {-1}             \* 'answer' values posted as JSON
OptionCounts == {1, OptionCount}            \* lengths of an admin's option list
CorrectInputs == {0, 1, 5}                  \* what an admin types or posts as correct
AdminLevels == {"A1", "ZZ"}                 \* levels an admin names; ZZ is no level

VARIABLES
    bank,       \* questions table: set of rows [id, level, correct]
    deletes,    \* number of admin deletions so far
    banned,     \* banned_users.user_id
    users,      \* users.user_id
    fsmState,   \* aiogram FSM state per Telegram user
    fsmData,    \* aiogram FSM data per Telegram user
    pending,    \* finish_quiz coroutines per user between save_result and state.clear()
    webSess,    \* session['current_quiz'] of each web user's cookie
    results,    \* results table, in insertion order
    reports,    \* question_reports rows as (question_id, user_id)
    hints,      \* user_hints.hints_count per user (0 when there is no row)
    bonusRows,  \* daily_bonus rows as (user_id, date)
    today,      \* date.today(), as a day number
    nextSid,    \* sessions created so far; each session carries its number
    startsLeft, \* successful starts still explored
    hintShown,  \* users whose client holds a question keyboard with a hint button
    webReq,     \* per web user: the /api/quiz/answer request in flight
    dbDown,     \* sqlite refuses writes (file locked, disk full)
    last,       \* the last operation and its outcome
    probe       \* input and outputs of the level rule (SpecLevel)

vars == <<bank, deletes, banned, users, fsmState, fsmData, pending, webSess,
          results, reports, hints, bonusRows, today, nextSid, startsLeft,
          hintShown, webReq, dbDown, last, probe, dbDown>>

dbVars == <<bank, deletes, banned, users, results, reports>>
hintVars == <<hints, bonusRows, today>>
botVars == <<fsmState, fsmData, pending>>
webVars == <<webSess, webReq>>
idVars == <<nextSid, startsLeft>>

\* ----------------------------------------------------------------- helpers
NoData == [quiz |-> FALSE, questions |-> <<>>, current |-> 0, score |-> 0,
           level |-> "", lives |-> 0, wrong |-> <<>>, report |-> 0, sid |-> 0]

NoWeb == [quiz |-> FALSE, questions |-> <<>>, current |-> 0, score |-> 0,
          level |-> "", wrong |-> <<>>, sid |-> 0]

\* no request in flight
NoReq == [sent |-> FALSE, sess |-> NoWeb, answer |-> 0]

NoProbe == [score |-> 0, total |-> 0, bot |-> "", web |-> ""]

Outcome(fe, op, u, resp) ==
    [fe |-> fe, op |-> op, u |-> u, resp |-> resp, shown |-> 0,
     correct |-> FALSE, empty |-> FALSE, ban |-> FALSE, fresh |-> FALSE,
     sid |-> 0, answer |-> 0, over |-> FALSE]

Ids(qs) == [i \in 1..Len(qs) |-> qs[i].id]

\* ORDER BY q.id, and ORDER BY l.id, q.id for the full quiz
Before(x, y, full) ==
    IF full /\ LevelId(x.level) # LevelId(y.level)
    THEN LevelId(x.level) < LevelId(y.level)
    ELSE x.id < y.id

RECURSIVE OrderRows(_, _)
OrderRows(S, full) ==
    IF S = {} THEN <<>>
    ELSE LET m == CHOOSE x \in S : \A y \in S \ {x} : Before(x, y, full)
         IN <<m>> \o OrderRows(S \ {m}, full)

Pool(rows, level) == {q \in rows : q.level = level}

\* get_questions(level=None)
get_questions(rows, level) ==
    IF level = "full" THEN OrderRows(rows, TRUE)
    ELSE OrderRows(Pool(rows, level), FALSE)

\* the rows of S in every order (ORDER BY RANDOM())
Perms(S) ==
    {s \in [1..Cardinality(S) -> S] :
        \A i, j \in 1..Cardinality(S) : i # j => s[i] # s[j]}

\* ------------------------------------------------------------- level rule
\* percentage = (score / total) * 100 is kept as the fraction 100*score/total.
\* The doubles the code compares agree with the fraction: a quotient that is
\* not exactly k/100 differs from it by at least 1/total, and 0.6*100,
\* 0.7*100, 0.8*100 and 0.9*100 round to exactly 60.0, 70.0, 80.0 and 90.0.
Percentage(score, total) == [num |-> 100 * score, den |-> total]

AtLeastMut(p, k) == p.num > k * p.den

AtLeast(p, k) == p.num >= k * p.den

BotLevel(score, total) ==
    LET percentage == Percentage(score, total)
    IN IF AtLeast(percentage, 90) THEN "C1"
       ELSE IF AtLeast(percentage, 80) THEN "B2"
       ELSE IF AtLeast(percentage, 70) THEN "B1"
       ELSE IF AtLeast(percentage, 60) THEN "A2"
       ELSE "A1"

WebLevel(score, total) ==
    LET percentage == Percentage(score, total)
    IN IF AtLeast(percentage, 90) THEN "C1"
       ELSE IF AtLeast(percentage, 80) THEN "B2"
       ELSE IF AtLeast(percentage, 70) THEN "B1"
       ELSE IF AtLeast(percentage, 60) THEN "A2"
       ELSE "A1"

\* -------------------------------------------------------------------- Init
\* the state after init_db and Dispatcher(storage=MemoryStorage()), on the
\* questions table rows
Boot(rows, removed, starts) ==
    /\ bank = rows
    /\ deletes = removed
    /\ banned = {}
    /\ users = {}
    /\ fsmState = [u \in TelegramUsers |-> "none"]
    /\ fsmData = [u \in TelegramUsers |-> NoData]
    /\ pending = [u \in TelegramUsers |-> 0]
    /\ webSess = [w \in WebUsers |-> NoWeb]
    /\ results = <<>>
    /\ reports = {}
    /\ hints = [u \in TelegramUsers |-> 0]
    /\ bonusRows = {}
    /\ today = 0
    /\ nextSid = 0
    /\ startsLeft = starts
    /\ hintShown = {}
    /\ webReq = [w \in WebUsers |-> NoReq]
    /\ dbDown = FALSE
    /\ last = Outcome("none", "init", 0, "")
    /\ probe = NoProbe

Init == Boot(SampleBank, 0, MaxStarts)

\* The questions table after an admin removed question 3 and added question
\* 5: two A1 rows, two B1 rows.  A second start is explored.
SmallBank == {Q(1, "A1", 0), Q(2, "A1", 1), Q(4, "B1", 1), Q(5, "B1", 0)}

SmallFilters == {"A1", "B1"}

InitSmall == Boot(SmallBank, 1, MaxStarts + 1)

\* ------------------------------------------------------------ user_hints
get_user_hints_mut(h, u) == h[u] + 1

\* SELECT hints_count FROM user_hints WHERE user_id = ?  (0 without a row)
get_user_hints(h, u) == h[u]

use_hint_all(h, u) ==
    [v \in DOMAIN h |-> IF h[v] > 0 THEN h[v] - 1 ELSE h[v]]

\* UPDATE user_hints SET hints_count = hints_count - 1
\*   WHERE user_id = ? AND hints_count > 0
use_hint(h, u) == IF h[u] > 0 THEN [h EXCEPT ![u] = @ - 1] ELSE h

\* ask_question: get_answer_keyboard(options, q_id, has_hint)
ShownAfterAsk(shown, h, u) ==
    IF get_user_hints(h, u) > 0 THEN shown \cup {u} ELSE shown

\* answer_idx == correct, answer == current_q['correct']
is_correct_mut(answer, q) == answer % OptionCount = q.correct

is_correct(answer, q) == answer = q.correct

\* ------------------------------------------------------------ bot: /start
\* start_command: the one handler that consults is_banned
BotStartCommand(u) ==
    /\ IF u \in banned
       THEN /\ users' = users
            /\ last' = [Outcome("bot", "start_command", u, "UserBanned")
                          EXCEPT !.ban = TRUE]
       ELSE /\ users' = users \cup {u}          \* add_user: INSERT OR IGNORE
            /\ last' = Outcome("bot", "start_command", u, "Ok")
    /\ UNCHANGED <<bank, deletes, banned, results, reports>>
    /\ UNCHANGED <<botVars, webVars, hintVars, idVars, hintShown, probe, dbDown>>

\* ------------------------------------------------------- bot: start_quiz
\* state.update_data(...) of start_quiz: the quiz keys are overwritten, any
\* other key of the FSM data (report_question_id) stays
NewBotQuizKeep(old, questions, level, sid) ==
    [quiz |-> TRUE, questions |-> questions, current |-> 0,
     score |-> old.score, level |-> level, lives |-> InitialLives,
     wrong |-> <<>>, report |-> old.report, sid |-> sid]

NewBotQuiz(old, questions, level, sid) ==
    [quiz |-> TRUE, questions |-> questions, current |-> 0, score |-> 0,
     level |-> level, lives |-> InitialLives, wrong |-> <<>>,
     report |-> old.report, sid |-> sid]

BotStartQuiz(u, level) ==
    LET questions == get_questions(bank, level)
        old == fsmData[u]
        midway == /\ fsmState[u] = "taking_quiz" /\ old.lives > 0
                  /\ 0 < old.current /\ old.current < Len(old.questions)
    IN /\ IF questions = <<>>
          THEN \* callback.answer("Bu darajada savollar yo'q."); return
               /\ UNCHANGED <<botVars, idVars, hintShown>>
               /\ last' = [Outcome("bot", "start", u, "EmptyPool")
                             EXCEPT !.empty = TRUE, !.ban = (u \in banned)]
          ELSE /\ startsLeft > 0
               /\ startsLeft' = startsLeft - 1
               /\ nextSid' = nextSid + 1
               /\ fsmData' = [fsmData EXCEPT
                      ![u] = NewBotQuiz(@, questions, level, nextSid + 1)]
               /\ fsmState' = [fsmState EXCEPT ![u] = "taking_quiz"]
               /\ UNCHANGED pending
               \* ask_question(callback.message, questions[0], state)
               /\ hintShown' = ShownAfterAsk(hintShown, hints, u)
               /\ last' = [Outcome("bot", "start", u, "Question")
                             EXCEPT !.shown = questions[1].id,
                                    !.ban = (u \in banned),
                                    !.sid = nextSid + 1,
                                    !.over = midway]
       /\ UNCHANGED <<dbVars, webVars, hintVars, probe, dbDown>>

\* ---------------------------------------------------- bot: handle_answer
ScoreAfterMut(score, ok) == IF ok THEN score + 2 ELSE score

ScoreAfter(score, ok) == IF ok THEN score + 1 ELSE score

LivesAfterMut(lives, ok) == lives - 1

LivesAfter(lives, ok) == IF ok THEN lives ELSE lives - 1

LivesExhaustedMut(lives) == lives < 0

LivesExhausted(lives) == lives <= 0

WrongAfterMut(wrong, ok, item) == Append(wrong, item)

\* wrong_answers.append(...) in the else branch of the comparison
WrongAfter(wrong, ok, item) == IF ok THEN wrong ELSE Append(wrong, item)

NextQuestionMut(questions, current) == questions[current]

\* questions[current] with the cursor already advanced (0-based in the code)
NextQuestion(questions, current) == questions[current + 1]

FinishKindCursorFirst(lives, current, n) ==
    IF current >= n THEN "Finished"
    ELSE IF LivesExhausted(lives) THEN "FinishedEarly"
    ELSE "Next"

\* if lives <= 0: finish_quiz(early_end=True)
\* elif current >= len(questions): finish_quiz()  else: ask_question
FinishKind(lives, current, n) ==
    IF LivesExhausted(lives) THEN "FinishedEarly"
    ELSE IF current >= n THEN "Finished"
    ELSE "Next"

save_result_swallow(rows, row, down) ==
    IF down THEN [ok |-> TRUE, rows |-> rows]
    ELSE [ok |-> TRUE, rows |-> Append(rows, row)]

\* INSERT INTO results ... ; commit: the row is stored, or sqlite3 raises and
\* the exception leaves the handler
save_result(rows, row, down) ==
    IF down THEN [ok |-> FALSE, rows |-> rows]
    ELSE [ok |-> TRUE, rows |-> Append(rows, row)]

\* the total handle_answer passes to finish_quiz
FinishTotalLeft(questions, current) == Len(questions) - current

FinishTotal(questions, current) == Len(questions)

\* finish_quiz: the level it saves, given the level the quiz was started with
BotDeterminedLevelMut(requested, score, total) ==
    IF requested = "full" THEN BotLevel(score, total) ELSE requested

BotDeterminedLevel(requested, score, total) == BotLevel(score, total)

\* save_result: one row of results (sid, cursor and filter are bookkeeping of
\* the model: the session the row belongs to, the cursor it finished at and the
\* level it was started with)
BotResultRow(u, score, total, wrong_answers, sid, cursor, requested) ==
    [uid |-> u, level |-> BotDeterminedLevel(requested, score, total),
     score |-> score, total |-> total, wrong |-> Ids(wrong_answers),
     fmt |-> IF wrong_answers = <<>> THEN "null" ELSE "rows",
     sid |-> sid, cursor |-> cursor, fe |-> "bot", filter |-> requested]

BotHandleAnswer(u, answer_idx) ==
    /\ fsmState[u] = "taking_quiz"            \* the handler's state filter
    /\ LET data == fsmData[u]
           questions == data.questions
       IN IF data.current >= Len(questions)
          THEN \* questions[current] raises IndexError: the handler ends here
               /\ UNCHANGED <<botVars, results, hintShown>>
               /\ last' = [Outcome("bot", "answer", u, "Crash")
                             EXCEPT !.sid = data.sid, !.answer = answer_idx]
          ELSE LET q == questions[data.current + 1]
                   ok == is_correct(answer_idx, q)
                   score == ScoreAfter(data.score, ok)
                   lives == LivesAfter(data.lives, ok)
                   wrong_answers == WrongAfter(data.wrong, ok, q)
                   current == data.current + 1
                   kind == FinishKind(lives, current, Len(questions))
                   total == FinishTotal(questions, current)
                   saved == save_result(results,
                               BotResultRow(u, score, total, wrong_answers,
                                            data.sid, current, data.level),
                               dbDown)
               IN /\ fsmData' = [fsmData EXCEPT ![u] =
                         [data EXCEPT !.current = current, !.score = score,
                                      !.lives = lives,
                                      !.wrong = wrong_answers]]
                  /\ fsmState' = fsmState
                  /\ IF kind = "Next"
                     THEN \* ask_question(callback.message, questions[current])
                          /\ UNCHANGED <<pending, results>>
                          /\ hintShown' = ShownAfterAsk(hintShown, hints, u)
                          /\ last' = [Outcome("bot", "answer", u, "Next")
                                        EXCEPT !.correct = ok,
                                               !.shown = NextQuestion(questions, current).id,
                                               !.sid = data.sid,
                                               !.answer = answer_idx]
                     ELSE IF saved.ok
                     THEN \* finish_quiz up to its first Telegram call
                          /\ pending[u] < MaxPending
                          /\ pending' = [pending EXCEPT ![u] = @ + 1]
                          /\ results' = saved.rows
                          /\ hintShown' = hintShown
                          /\ last' = [Outcome("bot", "answer", u, kind)
                                        EXCEPT !.correct = ok,
                                               !.sid = data.sid,
                                               !.answer = answer_idx]
                     ELSE \* save_result raises: nothing of finish_quiz follows
                          /\ UNCHANGED <<pending, hintShown>>
                          /\ results' = saved.rows
                          /\ last' = [Outcome("bot", "answer", u, "WriteFailed")
                                        EXCEPT !.correct = ok,
                                               !.sid = data.sid,
                                               !.answer = answer_idx]
    /\ UNCHANGED <<bank, deletes, banned, users, reports>>
    /\ UNCHANGED <<webVars, hintVars, idVars, probe, dbDown>>

\* an answer_ callback outside QuizStates.taking_quiz matches no handler
BotAnswerNoSession(u, answer_idx) ==
    /\ fsmState[u] # "taking_quiz"
    /\ last' = [Outcome("bot", "answer", u, "NoActiveSession")
                  EXCEPT !.answer = answer_idx]
    /\ UNCHANGED <<dbVars, botVars, webVars, hintVars, idVars, hintShown, probe, dbDown>>

\* finish_quiz after its Telegram calls: await state.clear()
BotFinishClear(u) ==
    /\ pending[u] > 0
    /\ pending' = [pending EXCEPT ![u] = @ - 1]
    /\ fsmState' = [fsmState EXCEPT ![u] = "none"]
    /\ fsmData' = [fsmData EXCEPT ![u] = NoData]
    /\ last' = Outcome("bot", "clear", u, "")
    /\ UNCHANGED <<dbVars, webVars, hintVars, idVars, hintShown, probe, dbDown>>

\* ------------------------------------------------------------ bot: report
\* the report button of the question on display
BotReport(u) ==
    /\ fsmState[u] = "taking_quiz"
    /\ fsmData[u].current < Len(fsmData[u].questions)
    /\ fsmData' = [fsmData EXCEPT ![u].report =
                      fsmData[u].questions[fsmData[u].current + 1].id]
    /\ fsmState' = [fsmState EXCEPT ![u] = "waiting_report_reason"]
    /\ last' = Outcome("bot", "report", u, "Ok")
    /\ UNCHANGED <<dbVars, pending, webVars, hintVars, idVars, hintShown, probe, dbDown>>

BotEnterReportReason(u) ==
    /\ fsmState[u] = "waiting_report_reason"
    /\ reports' = reports \cup {<<fsmData[u].report, u>>}
    /\ fsmState' = [fsmState EXCEPT ![u] = "none"]      \* state.clear()
    /\ fsmData' = [fsmData EXCEPT ![u] = NoData]
    /\ last' = Outcome("bot", "report_reason", u, "Ok")
    /\ UNCHANGED <<bank, deletes, banned, users, results>>
    /\ UNCHANGED <<pending, webVars, hintVars, idVars, hintShown, probe, dbDown>>

\* ------------------------------------------------ bot: hints and the bonus
\* get_daily_bonus: the value returned and the tables afterwards
get_daily_bonus_replace(u, day, rows, h) ==
    IF <<u, day>> \in rows
    THEN [ret |-> 1, rows |-> rows, hints |-> h, fresh |-> FALSE]
    ELSE [ret |-> 1, rows |-> rows \cup {<<u, day>>},
          hints |-> [h EXCEPT ![u] = 1], fresh |-> TRUE]

get_daily_bonus_mut(u, day, rows, h) ==
    [ret |-> 1, rows |-> rows \cup {<<u, day>>},
     hints |-> [h EXCEPT ![u] = @ + 1], fresh |-> TRUE]

get_daily_bonus(u, day, rows, h) ==
    IF <<u, day>> \in rows
    THEN [ret |-> 1, rows |-> rows, hints |-> h, fresh |-> FALSE]
    ELSE [ret |-> 1, rows |-> rows \cup {<<u, day>>},
          hints |-> [h EXCEPT ![u] = @ + 1], fresh |-> TRUE]

\* claim_daily_bonus
BotClaimDailyBonus(u) ==
    LET r == get_daily_bonus(u, today, bonusRows, hints)
    IN /\ bonusRows' = r.rows
       /\ hints' = r.hints
       /\ today' = today
       /\ last' = [Outcome("bot", "bonus", u,
                     IF r.ret # 0 THEN "AlreadyClaimed" ELSE "BonusGranted")
                     EXCEPT !.fresh = r.fresh]
       /\ UNCHANGED <<dbVars, botVars, webVars, idVars, hintShown, probe, dbDown>>

\* use_hint_callback: a hint_ button pressed.  The handler has no state
\* filter and reads no FSM data, so it runs for the button of any question
\* keyboard the user's client still holds, whatever became of the quiz.
BotUseHint(u) ==
    /\ u \in hintShown
    /\ IF get_user_hints(hints, u) > 0
       THEN /\ hints' = use_hint(hints, u)
            /\ last' = Outcome("bot", "hint", u, "HintUsed")
       ELSE /\ hints' = hints
            /\ last' = Outcome("bot", "hint", u, "NoHint")
    /\ UNCHANGED <<dbVars, botVars, webVars, bonusRows, today, idVars, hintShown,
                   probe, dbDown>>

\* midnight: date.today() moves on
NextDay ==
    /\ today < MaxDay
    /\ today' = today + 1
    /\ last' = Outcome("env", "midnight", 0, "")
    /\ UNCHANGED <<dbVars, botVars, webVars, hints, bonusRows, idVars, hintShown,
                   probe, dbDown>>

\* ------------------------------------------------------------------ admin
\* ban_user_reason -> ban_user: INSERT OR REPLACE INTO banned_users
AdminBan(t) ==
    /\ t \notin banned
    /\ banned' = banned \cup {t}
    /\ last' = Outcome("admin", "ban", t, "Ok")
    /\ UNCHANGED <<bank, deletes, users, results, reports>>
    /\ UNCHANGED <<botVars, webVars, hintVars, idVars, hintShown, probe, dbDown>>

\* unban_user_id -> unban_user
AdminUnban(t) ==
    /\ t \in banned
    /\ banned' = banned \ {t}
    /\ last' = Outcome("admin", "unban", t, "Ok")
    /\ UNCHANGED <<bank, deletes, users, results, reports>>
    /\ UNCHANGED <<botVars, webVars, hintVars, idVars, hintShown, probe, dbDown>>

\* delete_question_id -> delete_question
AdminDeleteQuestion(q) ==
    /\ deletes < MaxDeletes
    /\ q \in bank
    /\ bank' = bank \ {q}
    /\ deletes' = deletes + 1
    /\ last' = Outcome("admin", "delete", 0, "Ok")
    /\ UNCHANGED <<banned, users, results, reports>>
    /\ UNCHANGED <<botVars, webVars, hintVars, idVars, hintShown, probe, dbDown>>

\* ------------------------------------------ admin: add, edit, import rows
\* questions.id is AUTOINCREMENT: one above every id handed out so far, the
\* deleted rows included
NextQuestionId(rows, removed) == Cardinality(rows) + removed + 1

has_level(level) == \E i \in 1..Len(LevelNames) : LevelNames[i] = level

\* add_question: a row is inserted when the level exists
add_question(rows, removed, level, nopts, correct) ==
    IF has_level(level)
    THEN rows \cup {[id |-> NextQuestionId(rows, removed), level |-> level,
                     correct |-> correct, nopts |-> nopts]}
    ELSE rows

\* UPDATE questions SET options = ?, correct_answer = ? WHERE id = ?
update_question(rows, question_id, nopts, correct) ==
    {IF q.id = question_id
     THEN [q EXCEPT !.nopts = nopts, !.correct = correct] ELSE q : q \in rows}

\* admin_enter_options and edit_question_options: len(options) < 2 is refused
OptionsAccepted(nopts) == nopts >= 2

\* admin_enter_correct and edit_question_correct: 0 <= correct < len(options)
CorrectAccepted(nopts, correct) == 0 <= correct /\ correct < nopts

\* the add dialog of the bot: options, then the number typed for the answer
BotAdminAddQuestion(level, nopts, typed) ==
    LET correct == typed - 1
        accepted == OptionsAccepted(nopts) /\ CorrectAccepted(nopts, correct)
    IN /\ has_level(level)                 \* the level comes from a button
       /\ NextQuestionId(bank, deletes) <= MaxQuestionId
       /\ bank' = IF accepted
                  THEN add_question(bank, deletes, level, nopts, correct)
                  ELSE bank
       /\ last' = Outcome("admin", "add", 0,
                          IF accepted THEN "Ok" ELSE "Refused")
       /\ UNCHANGED <<deletes, banned, users, results, reports>>
       /\ UNCHANGED <<botVars, webVars, hintVars, idVars, hintShown, probe,
                      dbDown>>

\* the edit dialog of the bot on an existing row
BotAdminEditQuestion(q, nopts, typed) ==
    LET correct == typed - 1
        accepted == OptionsAccepted(nopts) /\ CorrectAccepted(nopts, correct)
    IN /\ q \in bank                       \* edit_question_id found the row
       /\ bank' = IF accepted
                  THEN update_question(bank, q.id, nopts, correct)
                  ELSE bank
       /\ last' = Outcome("admin", "edit", 0,
                          IF accepted THEN "Ok" ELSE "Refused")
       /\ UNCHANGED <<deletes, banned, users, results, reports>>
       /\ UNCHANGED <<botVars, webVars, hintVars, idVars, hintShown, probe,
                      dbDown>>

\* import_questions_from_csv on a one-row file: four option columns and
\* correct = int(row['correct']) - 1, stored as it comes
BotImportCsv(level, typed) ==
    /\ NextQuestionId(bank, deletes) <= MaxQuestionId
    /\ bank' = add_question(bank, deletes, level, OptionCount, typed - 1)
    /\ last' = Outcome("admin", "import", 0, "Ok")
    /\ UNCHANGED <<deletes, banned, users, results, reports>>
    /\ UNCHANGED <<botVars, webVars, hintVars, idVars, hintShown, probe,
                   dbDown>>

\* POST /api/admin/questions: options and correct are stored as posted; an
\* unknown level raises on fetchone()['id'] before the INSERT
WebAdminAddQuestion(level, nopts, correct) ==
    /\ NextQuestionId(bank, deletes) <= MaxQuestionId
    /\ bank' = add_question(bank, deletes, level, nopts, correct)
    /\ last' = Outcome("admin", "post", 0,
                       IF has_level(level) THEN "Ok" ELSE "Crash")
    /\ UNCHANGED <<deletes, banned, users, results, reports>>
    /\ UNCHANGED <<botVars, webVars, hintVars, idVars, hintShown, probe,
                   dbDown>>

\* PUT /api/admin/questions/<id>: options and correct are stored as posted
WebAdminUpdateQuestion(q, nopts, correct) ==
    /\ q \in bank
    /\ bank' = update_question(bank, q.id, nopts, correct)
    /\ last' = Outcome("admin", "put", 0, "Ok")
    /\ UNCHANGED <<deletes, banned, users, results, reports>>
    /\ UNCHANGED <<botVars, webVars, hintVars, idVars, hintShown, probe,
                   dbDown>>

\* ------------------------------------------ bot: the admin panel dialogs
is_admin_any(u) == TRUE

\* callback.from_user.id in ADMIN_IDS
is_admin(u) == u \in ADMIN_IDS

\* the state each admin_ button of the panel sets
DialogFirst(dialog) ==
    CASE dialog = "add" -> "waiting_level"
      [] dialog = "delete" -> "waiting_delete_id"
      [] dialog = "edit" -> "waiting_edit_id"
      [] dialog = "import" -> "importing_csv"
      [] dialog = "ban" -> "waiting_ban_user_id"
      [] dialog = "unban" -> "waiting_unban_user_id"

Dialogs == {"add", "delete", "edit", "import", "ban", "unban"}

\* the handlers that store what was sent and set the next state
DialogNext(st) ==
    CASE st = "waiting_level" -> "waiting_question"
      [] st = "waiting_question" -> "waiting_options"
      [] st = "waiting_options" -> "waiting_correct"
      [] st = "waiting_edit_id" -> "waiting_edit_text"
      [] st = "waiting_edit_text" -> "waiting_edit_options"
      [] st = "waiting_edit_options" -> "waiting_edit_correct"
      [] st = "waiting_ban_user_id" -> "waiting_ban_reason"
      [] OTHER -> st

\* an admin_ button: ignored unless the sender is in ADMIN_IDS; the FSM data
\* is left as it is
BotAdminOpen(u, dialog) ==
    /\ IF is_admin(u)
       THEN /\ fsmState' = [fsmState EXCEPT ![u] = DialogFirst(dialog)]
            /\ last' = Outcome("bot", "panel", u, "Ok")
       ELSE /\ fsmState' = fsmState
            /\ last' = Outcome("bot", "panel", u, "Ignored")
    /\ UNCHANGED <<dbVars, fsmData, pending, webVars, hintVars, idVars,
                   hintShown, probe, dbDown>>

\* admin_select_level, admin_enter_question, admin_enter_options,
\* edit_question_id, edit_question_text, edit_question_options, ban_user_id:
\* filtered by state alone
BotDialogAdvance(u) ==
    /\ DialogNext(fsmState[u]) # fsmState[u]
    /\ fsmState' = [fsmState EXCEPT ![u] = DialogNext(@)]
    /\ last' = Outcome("bot", "dialog", u, "Ok")
    /\ UNCHANGED <<dbVars, fsmData, pending, webVars, hintVars, idVars,
                   hintShown, probe, dbDown>>

\* await state.clear()
Cleared(f, u, empty) == [f EXCEPT ![u] = empty]

\* admin_enter_correct on the options stored by admin_enter_options
BotDialogAdd(u, level, nopts, typed) ==
    LET correct == typed - 1
        accepted == CorrectAccepted(nopts, correct)
    IN /\ fsmState[u] = "waiting_correct"
       /\ OptionsAccepted(nopts) /\ has_level(level)
       /\ NextQuestionId(bank, deletes) <= MaxQuestionId
       /\ IF accepted
          THEN /\ bank' = add_question(bank, deletes, level, nopts, correct)
               /\ fsmState' = Cleared(fsmState, u, "none")
               /\ fsmData' = Cleared(fsmData, u, NoData)
          ELSE UNCHANGED <<bank, fsmState, fsmData>>
       /\ last' = Outcome("bot", "add", u,
                          IF accepted THEN "Ok" ELSE "Refused")
       /\ UNCHANGED <<deletes, banned, users, results, reports>>
       /\ UNCHANGED <<pending, webVars, hintVars, idVars, hintShown, probe,
                      dbDown>>

\* edit_question_correct on the row edit_question_id found
BotDialogEdit(u, q, nopts, typed) ==
    LET correct == typed - 1
        accepted == CorrectAccepted(nopts, correct)
    IN /\ fsmState[u] = "waiting_edit_correct"
       /\ OptionsAccepted(nopts)
       /\ IF accepted
          THEN /\ bank' = update_question(bank, q.id, nopts, correct)
               /\ fsmState' = Cleared(fsmState, u, "none")
               /\ fsmData' = Cleared(fsmData, u, NoData)
          ELSE UNCHANGED <<bank, fsmState, fsmData>>
       /\ last' = Outcome("bot", "edit", u,
                          IF accepted THEN "Ok" ELSE "Refused")
       /\ UNCHANGED <<deletes, banned, users, results, reports>>
       /\ UNCHANGED <<pending, webVars, hintVars, idVars, hintShown, probe,
                      dbDown>>

\* import_csv_content on a one-row file
BotDialogImport(u, level, typed) ==
    /\ fsmState[u] = "importing_csv"
    /\ NextQuestionId(bank, deletes) <= MaxQuestionId
    /\ bank' = add_question(bank, deletes, level, OptionCount, typed - 1)
    /\ fsmState' = Cleared(fsmState, u, "none")
    /\ fsmData' = Cleared(fsmData, u, NoData)
    /\ last' = Outcome("bot", "import", u, "Ok")
    /\ UNCHANGED <<deletes, banned, users, results, reports>>
    /\ UNCHANGED <<pending, webVars, hintVars, idVars, hintShown, probe,
                   dbDown>>

\* delete_question_id
BotDialogDelete(u, q) ==
    /\ fsmState[u] = "waiting_delete_id"
    /\ deletes < MaxDeletes
    /\ q \in bank
    /\ bank' = bank \ {q}
    /\ deletes' = deletes + 1
    /\ fsmState' = Cleared(fsmState, u, "none")
    /\ fsmData' = Cleared(fsmData, u, NoData)
    /\ last' = Outcome("bot", "delete", u, "Ok")
    /\ UNCHANGED <<banned, users, results, reports>>
    /\ UNCHANGED <<pending, webVars, hintVars, idVars, hintShown, probe,
                   dbDown>>

\* ban_user_reason on the id ban_user_id stored
BotDialogBan(u, t) ==
    /\ fsmState[u] = "waiting_ban_reason"
    /\ banned' = banned \cup {t}
    /\ fsmState' = Cleared(fsmState, u, "none")
    /\ fsmData' = Cleared(fsmData, u, NoData)
    /\ last' = Outcome("bot", "ban", u, "Ok")
    /\ UNCHANGED <<bank, deletes, users, results, reports>>
    /\ UNCHANGED <<pending, webVars, hintVars, idVars, hintShown, probe,
                   dbDown>>

\* unban_user_id
BotDialogUnban(u, t) ==
    /\ fsmState[u] = "waiting_unban_user_id"
    /\ banned' = banned \ {t}
    /\ fsmState' = Cleared(fsmState, u, "none")
    /\ fsmData' = Cleared(fsmData, u, NoData)
    /\ last' = Outcome("bot", "unban", u, "Ok")
    /\ UNCHANGED <<bank, deletes, users, results, reports>>
    /\ UNCHANGED <<pending, webVars, hintVars, idVars, hintShown, probe,
                   dbDown>>

\* ------------------------------------------------- web: /api/quiz/start
WebPool(rows, level) ==
    IF level # "full" THEN Pool(rows, level) ELSE rows

NewWebQuiz(quiz_data, level, sid) ==
    [quiz |-> TRUE, questions |-> quiz_data, current |-> 0, score |-> 0,
     level |-> level, wrong |-> <<>>, sid |-> sid]

\* session['current_quiz'] is assigned before quiz_data[0] is read.  On an
\* empty pool quiz_data[0] raises IndexError: the debug server drops the
\* response's cookie, a production server sends the 500 with the session saved.
WebStartQuiz(w, level) ==
    LET pool == WebPool(bank, level)
        old == webSess[w]
        midway == /\ old.quiz
                  /\ 0 < old.current /\ old.current < Len(old.questions)
    IN /\ IF pool = {}
          THEN /\ \/ webSess' = [webSess EXCEPT ![w] = NewWebQuiz(<<>>, level, 0)]
                  \/ webSess' = webSess
               /\ UNCHANGED idVars
               /\ last' = [Outcome("web", "start", w, "Crash")
                             EXCEPT !.empty = TRUE,
                                    !.ban = (w + WebIdOffset \in banned)]
          ELSE /\ startsLeft > 0
               /\ startsLeft' = startsLeft - 1
               /\ nextSid' = nextSid + 1
               /\ \E quiz_data \in Perms(pool) :
                     /\ webSess' = [webSess EXCEPT
                            ![w] = NewWebQuiz(quiz_data, level, nextSid + 1)]
                     /\ last' = [Outcome("web", "start", w, "Question")
                                   EXCEPT !.shown = quiz_data[1].id,
                                          !.ban = (w + WebIdOffset \in banned),
                                          !.sid = nextSid + 1,
                                          !.over = midway]
       /\ UNCHANGED <<dbVars, botVars, hintVars, hintShown, webReq, probe, dbDown>>

\* ------------------------------------------------ web: /api/quiz/answer
WebDeterminedLevelMut(requested, score, total) ==
    IF requested = "full" THEN WebLevel(score, total) ELSE requested

\* the level submit_answer saves, given the level the quiz was started with
WebDeterminedLevel(requested, score, total) == WebLevel(score, total)

WebResultRow(w, score, total, wrong_ids, sid, cursor, requested) ==
    [uid |-> w + WebIdOffset,
     level |-> WebDeterminedLevel(requested, score, total),
     score |-> score, total |-> total, wrong |-> wrong_ids, fmt |-> "ids",
     sid |-> sid, cursor |-> cursor, fe |-> "web", filter |-> requested]

WebQuizOverLives(quiz) ==
    quiz.current >= Len(quiz.questions) \/ Len(quiz.wrong) >= InitialLives

\* if quiz['current'] >= len(quiz['questions'])
WebQuizOver(quiz) == quiz.current >= Len(quiz.questions)

\* submit_answer on the session a request's cookie carries: the session the
\* response's cookie carries (saved: the response sets the cookie), the rows
\* inserted into results, and the response
submit_answer(quiz, w, answer) ==
    IF ~quiz.quiz
    THEN \* 'current_quiz' not in session: 400 No active quiz
         [sess |-> quiz, saved |-> FALSE, crashed |-> FALSE, rows |-> <<>>,
          out |-> [Outcome("web", "answer", w, "NoActiveSession")
                     EXCEPT !.answer = answer]]
    ELSE IF quiz.current >= Len(quiz.questions)
    THEN \* quiz['questions'][quiz['current']] raises IndexError: 500
         [sess |-> quiz, saved |-> FALSE, crashed |-> FALSE, rows |-> <<>>,
          out |-> [Outcome("web", "answer", w, "Crash")
                     EXCEPT !.sid = quiz.sid, !.answer = answer]]
    ELSE LET current_q == quiz.questions[quiz.current + 1]
             ok == is_correct(answer, current_q)
             score == ScoreAfter(quiz.score, ok)
             wrong == WrongAfter(quiz.wrong, ok, current_q.id)
             current == quiz.current + 1
             total == Len(quiz.questions)
             after == [quiz EXCEPT !.current = current, !.score = score,
                                   !.wrong = wrong]
             stored == save_result(<<>>,
                          WebResultRow(w, score, total, wrong, quiz.sid,
                                       current, quiz.level),
                          dbDown)
         IN IF WebQuizOver(after)
            THEN IF stored.ok
                 THEN [sess |-> after, saved |-> TRUE, crashed |-> FALSE,
                       rows |-> stored.rows,
                       out |-> [Outcome("web", "answer", w, "Finished")
                                  EXCEPT !.correct = ok, !.sid = quiz.sid,
                                         !.answer = answer]]
                 ELSE \* the INSERT raises after session['current_quiz'] = quiz
                      [sess |-> after, saved |-> TRUE, crashed |-> TRUE,
                       rows |-> stored.rows,
                       out |-> [Outcome("web", "answer", w, "WriteFailed")
                                  EXCEPT !.correct = ok, !.sid = quiz.sid,
                                         !.answer = answer]]
            ELSE [sess |-> after, saved |-> TRUE, crashed |-> FALSE,
                  rows |-> <<>>,
                  out |-> [Outcome("web", "answer", w, "Next")
                             EXCEPT !.correct = ok,
                                    !.shown = NextQuestion(quiz.questions,
                                                           current).id,
                                    !.sid = quiz.sid, !.answer = answer]]

\* whether the browser gets the session of the response: a response that
\* modified the session sets the cookie; after an unhandled exception the
\* debug server sends none and a production server sends the 500 with it
CookieKept(r) == IF r.crashed THEN BOOLEAN ELSE {r.saved}

\* a request answered before the browser sends anything else
WebSubmitAnswer(w, answer) ==
    LET r == submit_answer(webSess[w], w, answer)
    IN /\ \E keep \in CookieKept(r) :
             webSess' = IF keep THEN [webSess EXCEPT ![w] = r.sess]
                        ELSE webSess
       /\ results' = results \o r.rows
       /\ last' = r.out
       /\ UNCHANGED <<bank, deletes, banned, users, reports>>
       /\ UNCHANGED <<botVars, hintVars, idVars, hintShown, webReq, probe,
                      dbDown>>

\* the browser posts an answer with the cookie it holds; the request is on
\* its way or being handled while the browser goes on
WebSendAnswer(w, answer) ==
    /\ ~webReq[w].sent
    /\ webReq' = [webReq EXCEPT
                     ![w] = [sent |-> TRUE, sess |-> webSess[w],
                             answer |-> answer]]
    /\ last' = [Outcome("web", "send", w, "") EXCEPT !.answer = answer]
    /\ UNCHANGED <<dbVars, botVars, webSess, hintVars, idVars, hintShown,
                   probe, dbDown>>

\* submit_answer handles that request and the browser stores the cookie of
\* the response
WebReceiveAnswer(w) ==
    /\ webReq[w].sent
    /\ LET r == submit_answer(webReq[w].sess, w, webReq[w].answer)
       IN /\ \E keep \in CookieKept(r) :
                webSess' = IF keep THEN [webSess EXCEPT ![w] = r.sess]
                           ELSE webSess
          /\ results' = results \o r.rows
          /\ last' = r.out
    /\ webReq' = [webReq EXCEPT ![w] = NoReq]
    /\ UNCHANGED <<bank, deletes, banned, users, reports>>
    /\ UNCHANGED <<botVars, hintVars, idVars, hintShown, probe, dbDown>>

\* ------------------------------------------------------------- the sqlite file
\* english_quiz.db stops and resumes accepting writes
DbFail ==
    /\ ~dbDown
    /\ dbDown' = TRUE
    /\ last' = Outcome("env", "db_fail", 0, "")
    /\ UNCHANGED <<dbVars, botVars, webVars, hintVars, idVars, hintShown, probe>>

DbRecover ==
    /\ dbDown
    /\ dbDown' = FALSE
    /\ last' = Outcome("env", "db_recover", 0, "")
    /\ UNCHANGED <<dbVars, botVars, webVars, hintVars, idVars, hintShown, probe>>

\* ------------------------------------------------------------ level rule
\* the level both front-ends record for one (score, total)
LevelDraw(score, total) ==
    /\ probe = NoProbe
    /\ probe' = [score |-> score, total |-> total, bot |-> "", web |-> ""]
    /\ last' = Outcome("none", "draw", 0, "")
    /\ UNCHANGED <<dbVars, botVars, webVars, hintVars, idVars, hintShown,
                   dbDown>>

LevelBot ==
    /\ probe.total > 0 /\ probe.bot = ""
    /\ probe' = [probe EXCEPT !.bot = BotLevel(probe.score, probe.total)]
    /\ last' = Outcome("bot", "level", 0, "")
    /\ UNCHANGED <<dbVars, botVars, webVars, hintVars, idVars, hintShown,
                   dbDown>>

LevelWeb ==
    /\ probe.total > 0 /\ probe.web = ""
    /\ probe' = [probe EXCEPT !.web = WebLevel(probe.score, probe.total)]
    /\ last' = Outcome("web", "level", 0, "")
    /\ UNCHANGED <<dbVars, botVars, webVars, hintVars, idVars, hintShown,
                   dbDown>>

\* ------------------------------------------- one quiz in both front-ends
\* handle_answer on the FSM data: the data it stores and what it goes on to
handle_answer(data, answer_idx) ==
    LET q == data.questions[data.current + 1]
        ok == is_correct(answer_idx, q)
        after == [data EXCEPT !.current = @ + 1,
                              !.score = ScoreAfter(@, ok),
                              !.lives = LivesAfter(@, ok),
                              !.wrong = WrongAfter(@, ok, q)]
    IN [data |-> after,
        kind |-> FinishKind(after.lives, after.current, Len(data.questions))]

\* the bot fed with answers[k], answers[k + 1], ...: the answer it finishes
\* on and the row it saves
RECURSIVE BotRun(_, _, _, _)
BotRun(u, data, answers, k) ==
    IF k > Len(answers) THEN [at |-> 0, rows |-> <<>>]
    ELSE LET r == handle_answer(data, answers[k])
         IN IF r.kind = "Next" THEN BotRun(u, r.data, answers, k + 1)
            ELSE [at |-> k,
                  rows |-> <<BotResultRow(u, r.data.score,
                                FinishTotal(data.questions, r.data.current),
                                r.data.wrong, data.sid, r.data.current,
                                data.level)>>]

\* the same for submit_answer
RECURSIVE WebRun(_, _, _, _)
WebRun(w, quiz, answers, k) ==
    IF k > Len(answers) THEN [at |-> 0, rows |-> <<>>]
    ELSE LET r == submit_answer(quiz, w, answers[k])
         IN IF r.out.resp = "Next" THEN WebRun(w, r.sess, answers, k + 1)
            ELSE [at |-> k, rows |-> r.rows]

\* one question sequence and one answer per question, given to both
Replay(u, w, level, answers) ==
    LET questions == get_questions(bank, level)
    IN /\ questions # <<>>
       /\ Len(answers) = Len(questions)
       /\ ~dbDown
       /\ probe' = [questions |-> questions, answers |-> answers,
                    bot |-> BotRun(u, NewBotQuiz(NoData, questions, level, 0),
                                   answers, 1),
                    web |-> WebRun(w, NewWebQuiz(questions, level, 0),
                                   answers, 1)]
       /\ last' = Outcome("both", "replay", u, "")
       /\ UNCHANGED <<dbVars, botVars, webVars, hintVars, idVars, hintShown,
                      dbDown>>

\* --------------------------------------------------------- specifications
\* The session engine of both front-ends.
Next ==
    \/ \E u \in SoloBot, level \in BotFilters : BotStartQuiz(u, level)
    \/ \E u \in SoloBot, a \in InBounds : BotHandleAnswer(u, a)
    \/ \E u \in SoloBot, a \in InBounds : BotAnswerNoSession(u, a)
    \/ \E u \in SoloBot : BotFinishClear(u)
    \/ \E u \in SoloBot : BotReport(u)
    \/ \E u \in SoloBot : BotEnterReportReason(u)
    \/ \E w \in WebUsers, level \in WebFilters : WebStartQuiz(w, level)
    \/ \E w \in WebUsers, a \in InBounds : WebSubmitAnswer(w, a)

Spec == Init /\ [][Next]_vars

\* Starting a quiz against the moderation and question tables.
BanTargets == SoloBot \cup {w + WebIdOffset : w \in WebUsers}

NextAdmin ==
    \/ \E u \in SoloBot : BotStartCommand(u)
    \/ \E u \in SoloBot, level \in BotFilters : BotStartQuiz(u, level)
    \/ \E w \in WebUsers, level \in WebStartFilters : WebStartQuiz(w, level)
    \/ \E t \in BanTargets : AdminBan(t)
    \/ \E t \in BanTargets : AdminUnban(t)
    \/ \E q \in bank : AdminDeleteQuestion(q)

SpecAdmin == Init /\ [][NextAdmin]_vars

\* The hint economy during a quiz.
NextHints ==
    \/ \E u \in BotUsers, level \in {"A1"} : BotStartQuiz(u, level)
    \/ \E u \in BotUsers : BotClaimDailyBonus(u)
    \/ \E u \in BotUsers : BotUseHint(u)
    \/ NextDay

SpecHints == Init /\ [][NextHints]_vars

\* The level rule on every score and total up to MaxTotal.
NextLevel ==
    \/ \E total \in 1..MaxTotal, score \in 0..MaxTotal :
          score <= total /\ LevelDraw(score, total)
    \/ LevelBot
    \/ LevelWeb

SpecLevel == Init /\ [][NextLevel]_vars

\* Sessions of both front-ends on the small bank, restarts included.
NextSmall ==
    \/ \E u \in SoloBot, level \in SmallFilters : BotStartQuiz(u, level)
    \/ \E u \in SoloBot, a \in InBounds : BotHandleAnswer(u, a)
    \/ \E u \in SoloBot : BotFinishClear(u)
    \/ \E w \in WebUsers, level \in SmallFilters : WebStartQuiz(w, level)
    \/ \E w \in WebUsers, a \in InBounds : WebSubmitAnswer(w, a)

SpecSmall == InitSmall /\ [][NextSmall]_vars

\* Two Telegram users, each with quiz, bonus and hint button.
NextCross ==
    \/ \E u \in BotUsers, level \in SmallFilters : BotStartQuiz(u, level)
    \/ \E u \in BotUsers, a \in FirstOption : BotHandleAnswer(u, a)
    \/ \E u \in BotUsers : BotFinishClear(u)
    \/ \E u \in BotUsers : BotClaimDailyBonus(u)
    \/ \E u \in BotUsers : BotUseHint(u)

SpecCross == InitSmall /\ [][NextCross]_vars

\* One quiz per front-end, answered with indexes inside and outside the
\* options.
NextChoices ==
    \/ \E u \in SoloBot : BotStartQuiz(u, "A1")
    \/ \E u \in SoloBot, a \in Choices : BotHandleAnswer(u, a)
    \/ \E u \in SoloBot : BotFinishClear(u)
    \/ \E w \in WebUsers : WebStartQuiz(w, "A1")
    \/ \E w \in WebUsers, a \in WebChoices : WebSubmitAnswer(w, a)

SpecChoices == Init /\ [][NextChoices]_vars

\* One quiz per front-end while the results table comes and goes.
NextStorage ==
    \/ \E u \in SoloBot : BotStartQuiz(u, "A1")
    \/ \E u \in SoloBot, a \in InBounds : BotHandleAnswer(u, a)
    \/ \E u \in SoloBot : BotFinishClear(u)
    \/ \E w \in WebUsers : WebStartQuiz(w, "A1")
    \/ \E w \in WebUsers, a \in InBounds : WebSubmitAnswer(w, a)
    \/ DbFail
    \/ DbRecover

SpecStorage == Init /\ [][NextStorage]_vars

\* The web quiz with a second request sent before the first is answered.
NextWebRace ==
    \/ \E w \in WebUsers, level \in WebFilters : WebStartQuiz(w, level)
    \/ \E w \in WebUsers, a \in InBounds : WebSubmitAnswer(w, a)
    \/ \E w \in WebUsers, a \in InBounds : WebSendAnswer(w, a)
    \/ \E w \in WebUsers : WebReceiveAnswer(w)

SpecWebRace == Init /\ [][NextWebRace]_vars

\* A quiz in each front-end while an admin deletes and edits rows.
NextBank ==
    \/ \E u \in SoloBot : BotStartQuiz(u, "A1")
    \/ \E u \in SoloBot, a \in FirstOption : BotHandleAnswer(u, a)
    \/ \E u \in SoloBot : BotFinishClear(u)
    \/ \E w \in WebUsers : WebStartQuiz(w, "A1")
    \/ \E w \in WebUsers, a \in FirstOption : WebSubmitAnswer(w, a)
    \/ \E q \in Pool(bank, "A1") : AdminDeleteQuestion(q)
    \/ \E q \in Pool(bank, "A1") : WebAdminUpdateQuestion(q, OptionCount, 1)

SpecBank == Init /\ [][NextBank]_vars

\* Every way an admin changes the questions table.
NextBankAdmin ==
    \/ \E nopts \in OptionCounts, typed \in CorrectInputs :
          BotAdminAddQuestion("A1", nopts, typed)
    \/ \E q \in bank, nopts \in OptionCounts, typed \in CorrectInputs :
          BotAdminEditQuestion(q, nopts, typed)
    \/ \E level \in AdminLevels, typed \in CorrectInputs :
          BotImportCsv(level, typed)
    \/ \E level \in AdminLevels, nopts \in OptionCounts,
          correct \in CorrectInputs : WebAdminAddQuestion(level, nopts, correct)
    \/ \E q \in bank, nopts \in OptionCounts, correct \in CorrectInputs :
          WebAdminUpdateQuestion(q, nopts, correct)
    \/ \E q \in bank : AdminDeleteQuestion(q)

SpecBankAdmin == Init /\ [][NextBankAdmin]_vars

\* The web quiz over the whole questions table.
NextWebFull ==
    \/ \E w \in WebUsers : WebStartQuiz(w, "full")
    \/ \E w \in WebUsers, a \in InBounds : WebSubmitAnswer(w, a)

SpecWebFull == Init /\ [][NextWebFull]_vars

\* Telegram users and a web user who each finish a quiz.
NextIds ==
    \/ \E u \in BotUsers : BotStartCommand(u)
    \/ \E u \in BotUsers : BotStartQuiz(u, "B1")
    \/ \E u \in BotUsers, a \in FirstOption : BotHandleAnswer(u, a)
    \/ \E u \in BotUsers : BotFinishClear(u)
    \/ \E w \in WebUsers : WebStartQuiz(w, "B1")
    \/ \E w \in WebUsers, a \in FirstOption : WebSubmitAnswer(w, a)

SpecIds == InitSmall /\ [][NextIds]_vars

\* A user of each front-end who keeps answering: every answer sent is handled.
NextAnswers ==
    \/ \E u \in SoloBot : BotStartQuiz(u, "A1")
    \/ \E u \in SoloBot, a \in InBounds : BotHandleAnswer(u, a)
    \/ \E u \in SoloBot : BotFinishClear(u)
    \/ \E w \in WebUsers : WebStartQuiz(w, "A1")
    \/ \E w \in WebUsers, a \in InBounds : WebSubmitAnswer(w, a)

SpecAnswers ==
    /\ InitSmall /\ [][NextAnswers]_vars
    /\ \A u \in SoloBot : WF_vars(\E a \in InBounds : BotHandleAnswer(u, a))
    /\ \A u \in SoloBot : WF_vars(BotFinishClear(u))
    /\ \A w \in WebUsers : WF_vars(\E a \in InBounds : WebSubmitAnswer(w, a))

\* Quizzes started on levels with and without questions.
NextEmpty ==
    \/ \E u \in SoloBot, level \in {"A1", "C1"} : BotStartQuiz(u, level)
    \/ \E u \in SoloBot, a \in InBounds : BotHandleAnswer(u, a)
    \/ \E u \in SoloBot : BotFinishClear(u)
    \/ \E w \in WebUsers, level \in {"A1", "ZZ"} : WebStartQuiz(w, level)
    \/ \E w \in WebUsers, a \in InBounds : WebSubmitAnswer(w, a)

SpecEmpty == Init /\ [][NextEmpty]_vars

\* The same questions and answers in both front-ends, on every table an
\* admin's deletions leave.
AnswerLists ==
    UNION {[1..n -> InBounds] : n \in 1..Cardinality(SampleBank)}

NextReplay ==
    \/ \E u \in SoloBot, w \in WebUsers, level \in BotFilters,
          answers \in AnswerLists : Replay(u, w, level, answers)
    \/ \E q \in bank : AdminDeleteQuestion(q)

SpecReplay == Init /\ [][NextReplay]_vars

\* The admin panel in the hands of the admin and of a user who is not one,
\* who also takes a quiz and reports a question.
DialogUsers == SoloBot \cup ADMIN_IDS

NextDialogs ==
    \/ \E u \in DialogUsers, dialog \in Dialogs : BotAdminOpen(u, dialog)
    \/ \E u \in DialogUsers : BotDialogAdvance(u)
    \/ \E u \in DialogUsers, typed \in {1, 5} :
          BotDialogAdd(u, "A1", OptionCount, typed)
    \/ \E u \in DialogUsers, q \in Pool(bank, "B1"), typed \in {1, 5} :
          BotDialogEdit(u, q, OptionCount, typed)
    \/ \E u \in DialogUsers : BotDialogImport(u, "A1", 1)
    \/ \E u \in DialogUsers, q \in Pool(bank, "A1") : BotDialogDelete(u, q)
    \/ \E u \in DialogUsers, t \in SoloBot : BotDialogBan(u, t)
    \/ \E u \in DialogUsers, t \in SoloBot : BotDialogUnban(u, t)
    \/ \E u \in SoloBot : BotStartQuiz(u, "B1")
    \/ \E u \in SoloBot, a \in FirstOption : BotHandleAnswer(u, a)
    \/ \E u \in SoloBot : BotFinishClear(u)
    \/ \E u \in SoloBot : BotReport(u)
    \/ \E u \in SoloBot : BotEnterReportReason(u)

SpecDialogs == Init /\ [][NextDialogs]_vars

\* ------------------------------------------------------------------ claims
BotActive(u) == fsmState[u] = "taking_quiz" /\ fsmData[u].quiz

Answered(fe) ==
    /\ last.fe = fe /\ last.op = "answer"
    /\ last.resp \in {"Next", "Finished", "FinishedEarly"}

\* C1: in both front-ends every session satisfies
\* score <= cursor <= length(questions) after every submitAnswer call.
C1_ScoreCursorLength ==
    /\ \A u \in BotUsers : fsmData[u].quiz =>
          /\ 0 <= fsmData[u].score
          /\ fsmData[u].score <= fsmData[u].current
          /\ fsmData[u].current <= Len(fsmData[u].questions)
    /\ \A w \in WebUsers : webSess[w].quiz =>
          /\ 0 <= webSess[w].score
          /\ webSess[w].score <= webSess[w].current
          /\ webSess[w].current <= Len(webSess[w].questions)

\* every question of a four-question bot quiz answered correctly
C1_Witness ==
    /\ Answered("bot")
    /\ fsmData[last.u].score = 4 /\ fsmData[last.u].current = 4
    /\ Len(fsmData[last.u].questions) = 4

\* C2: with lives = 3 at the start the bot session finishes on exactly the
\* answer that records the third wrong answer, whatever is left of the pool:
\* that call ends the quiz early and presents no question, no earlier call
\* ends it early, and after three wrong answers from the start the cursor is 3.
C2_ThirdWrongEndsSession ==
    \A u \in BotUsers :
        (Answered("bot") /\ last.u = u) =>
            LET d == fsmData[u]
                wrongs == Len(d.wrong)
            IN /\ d.lives = InitialLives - wrongs
               /\ (~last.correct /\ wrongs = 3) =>
                     (last.resp = "FinishedEarly" /\ last.shown = 0)
               /\ wrongs < 3 => last.resp # "FinishedEarly"
               /\ (wrongs < 3 /\ d.current < Len(d.questions)) =>
                     (last.resp = "Next"
                      /\ last.shown = d.questions[d.current + 1].id)
               /\ (wrongs = 3 /\ d.score = 0 /\ ~last.correct) => d.current = 3

\* three wrong answers from the start of a four-question quiz
C2_Witness ==
    /\ Answered("bot") /\ last.resp = "FinishedEarly"
    /\ fsmData[last.u].current = 3 /\ fsmData[last.u].score = 0
    /\ Len(fsmData[last.u].questions) = 4

\* C3: on every termination the total stored in the Result equals the cursor
\* reached, the number of questions actually presented.
C3_TotalIsCursor ==
    \A i \in DOMAIN results : results[i].total = results[i].cursor

\* the bands as the specification states them
ClaimedLevel(score, total) ==
    IF score * 100 >= 90 * total THEN "C1"
    ELSE IF score * 100 >= 80 * total THEN "B2"
    ELSE IF score * 100 >= 70 * total THEN "B1"
    ELSE IF score * 100 >= 60 * total THEN "A2"
    ELSE "A1"

\* C4: the level is C1 from 90%, B2 from 80%, B1 from 70%, A2 from 60% and A1
\* below, each band inclusive on its lower bound, and both front-ends compute
\* the same level for the same score and total.
C4_LevelRule ==
    /\ probe.bot # "" => probe.bot = ClaimedLevel(probe.score, probe.total)
    /\ probe.web # "" => probe.web = ClaimedLevel(probe.score, probe.total)
    /\ (probe.total = 10 /\ probe.bot # "") =>
          /\ probe.score = 9 => probe.bot = "C1"
          /\ probe.score = 8 => probe.bot = "B2"
          /\ probe.score = 7 => probe.bot = "B1"
          /\ probe.score = 6 => probe.bot = "A2"
          /\ probe.score = 5 => probe.bot = "A1"

\* 6/10, exactly on the 60% boundary, through both front-ends
C4_Witness ==
    /\ probe.score = 6 /\ probe.total = 10
    /\ probe.bot = "A2" /\ probe.web = "A2"

\* C5: a start whose filter matches no question fails with EmptyPool and
\* creates no session, in either front-end.
C5_EmptyPoolRefused ==
    /\ (last.op = "start" /\ last.empty) => last.resp = "EmptyPool"
    /\ \A w \in WebUsers : webSess[w].quiz => webSess[w].questions # <<>>
    /\ \A u \in BotUsers : fsmData[u].quiz => fsmData[u].questions # <<>>

\* C6: once the answer that finishes a session has been handled, no session
\* remains for that user.
C6_SessionDiscarded ==
    /\ \A w \in WebUsers :
          (Answered("web") /\ last.resp = "Finished" /\ last.u = w) =>
              ~webSess[w].quiz
    /\ \A u \in BotUsers :
          (pending[u] = 0 /\ fsmData[u].quiz) =>
              /\ fsmData[u].lives > 0
              /\ fsmData[u].current < Len(fsmData[u].questions)

\* C7: at most one Result row is written per session.
C7_OneResultPerSession ==
    \A i, j \in DOMAIN results :
        results[i].sid = results[j].sid => i = j

\* C8: a start attempt by a banned user fails with UserBanned and creates no
\* session.
C8_BannedCannotStart ==
    (last.op = "start" /\ last.ban) => last.resp = "UserBanned"

\* C9: an Active session stops being Active only by finishing or by a new
\* start; no other operation of the user ends it.
C9_OnlyFinishOrStartEndsSession ==
    [][\A u \in BotUsers :
          (BotActive(u) /\ ~BotActive(u)') =>
              last'.op \in {"answer", "clear", "start"}]_vars

\* C10: the daily bonus is granted once per user and date: a claim adds 1 to
\* the balance when the user has no row for today and 0 when it has one, a
\* claim that finds the row reports it as already claimed, rows are kept, and
\* so a balance never exceeds the number of dates its user has claimed on.
C10_BonusOncePerDay ==
    /\ [][\A u \in BotUsers :
             (last'.op = "bonus" /\ last'.u = u) =>
                 LET had == <<u, today>> \in bonusRows
                 IN /\ hints'[u] = hints[u] + (IF had THEN 0 ELSE 1)
                    /\ bonusRows' = bonusRows \cup {<<u, today>>}
                    /\ had => last'.resp = "AlreadyClaimed"
                    /\ \A v \in BotUsers \ {u} : hints'[v] = hints[v]]_vars
    /\ [](\A u \in BotUsers :
             hints[u] <= Cardinality({r \in bonusRows : r[1] = u}))

\* a repeated claim on the second day, after one grant on each day
C10_Witness ==
    /\ last.op = "bonus" /\ ~last.fresh /\ last.resp = "AlreadyClaimed"
    /\ today = 1
    /\ {<<last.u, 0>>, <<last.u, 1>>} \subseteq bonusRows
    /\ hints[last.u] = 2

\* C11: no hint balance is ever below 0, and a hint request on a balance of 0
\* is answered "no hint" and leaves the balance at 0.
C11_HintsNeverNegative ==
    /\ [](\A u \in BotUsers : hints[u] >= 0)
    /\ [][\A u \in BotUsers :
             (last'.op = "hint" /\ last'.u = u /\ hints[u] = 0) =>
                 (last'.resp = "NoHint" /\ hints'[u] = 0)]_vars

\* a hint request after the one hint of today's bonus has been used
C11_Witness ==
    /\ last.op = "hint" /\ last.resp = "NoHint"
    /\ hints[last.u] = 0
    /\ <<last.u, today>> \in bonusRows

\* C12: whatever the order of one user's hint requests and bonus claims,
\* every step changes the balance by exactly +1 for a bonus granted, -1 for a
\* hint reported as used and 0 otherwise, so the balance is always the
\* initial balance plus the grants minus the hints reported as used.
C12_NoLostHintUpdate ==
    [][\A u \in BotUsers :
          hints'[u] = hints[u]
              + (IF last'.op = "bonus" /\ last'.u = u /\ last'.fresh
                 THEN 1 ELSE 0)
              - (IF last'.op = "hint" /\ last'.u = u
                    /\ last'.resp = "HintUsed"
                 THEN 1 ELSE 0)]_vars

\* two grants and one hint used, the hint between the grants or after them
C12_Witness ==
    /\ last.op \in {"hint", "bonus"}
    /\ Cardinality({r \in bonusRows : r[1] = last.u}) = 2
    /\ hints[last.u] = 1

\* C13: a quiz on [Q1(correct 0), Q2(correct 1)] answered 0 and 0 finishes on
\* the second answer with score 1, total 2, 50 percent and level A1, and its
\* result row holds as wrong answers exactly the id list [Q2.id], whichever
\* front-end ran it.
C13_EndToEnd ==
    \A fe \in {"bot", "web"} :
        (/\ Answered(fe) /\ last.answer = 0 /\ ~last.correct
         /\ results # <<>>
         /\ results[Len(results)].sid = last.sid
         /\ results[Len(results)].filter = "A1"
         /\ results[Len(results)].cursor = 2
         /\ results[Len(results)].score = 1) =>
            LET r == results[Len(results)]
            IN /\ last.resp = "Finished"
               /\ r.total = 2
               /\ 100 * r.score = 50 * r.total
               /\ r.level = "A1"
               /\ r.wrong = <<2>>
               /\ r.fmt = "ids"

\* C14: an answer from a user for whom no start has ever succeeded is refused
\* as NoActiveSession, and no result is written and no score or cursor moves.
C14_AnswerWithoutSession ==
    (last.op = "answer" /\ nextSid = 0) =>
        /\ last.resp = "NoActiveSession"
        /\ results = <<>>
        /\ \A u \in BotUsers : fsmData[u].current = 0 /\ fsmData[u].score = 0
        /\ \A w \in WebUsers : webSess[w].current = 0 /\ webSess[w].score = 0

\* C15: a hint request from a user without an Active session is refused as
\* NoActiveSession and takes nothing from the balance.
C15_HintNeedsSession ==
    [][\A u \in BotUsers :
          (last'.op = "hint" /\ last'.u = u /\ ~BotActive(u)) =>
              (last'.resp = "NoActiveSession" /\ hints'[u] = hints[u])]_vars

\* C16: every answer a front-end handles for a session moves the cursor of
\* that user's stored session forward by exactly one, so that two answers
\* move it by two however their handling overlaps.
C16_AnswersSerialized ==
    [][/\ \A w \in WebUsers :
             (/\ last'.fe = "web" /\ last'.op = "answer" /\ last'.u = w
              /\ last'.resp \in {"Next", "Finished"}
              /\ last'.sid = webSess[w].sid) =>
                 webSess'[w].current = webSess[w].current + 1
       /\ \A u \in BotUsers :
             (/\ last'.fe = "bot" /\ last'.op = "answer" /\ last'.u = u
              /\ last'.resp \in {"Next", "Finished", "FinishedEarly"}) =>
                 fsmData'[u].current = fsmData[u].current + 1]_vars

\* C17: a step of one Telegram user leaves every other user's session, FSM
\* state, hint balance and bonus rows as they were.
C17_CrossUserIndependence ==
    [][\A a, b \in BotUsers :
          (a # b /\ last'.fe = "bot" /\ last'.u = a) =>
              /\ fsmData'[b] = fsmData[b]
              /\ fsmState'[b] = fsmState[b]
              /\ pending'[b] = pending[b]
              /\ hints'[b] = hints[b]
              /\ {r \in bonusRows' : r[1] = b} = {r \in bonusRows : r[1] = b}]_vars

\* user 1 has just answered while user 10001 is midway through a quiz of its
\* own and holds a hint
C17_Witness ==
    /\ Answered("bot") /\ last.u = 1 /\ last.resp = "Next"
    /\ BotActive(10001) /\ fsmData[10001].current = 1
    /\ fsmData[10001].sid # fsmData[1].sid
    /\ hints[10001] = 1 /\ hints[1] = 0

\* C18: right after a successful start the user's session has cursor 0,
\* score 0, an empty wrong-answer list and, in the bot, 3 lives, it is the
\* session of this start, and the question returned is its first one; this is
\* so too when the start lands in the middle of an Active session.
C18_StartIsFresh ==
    /\ \A u \in BotUsers :
          (/\ last.fe = "bot" /\ last.op = "start" /\ last.u = u
           /\ last.resp = "Question") =>
              LET d == fsmData[u]
              IN /\ fsmState[u] = "taking_quiz" /\ d.quiz
                 /\ d.current = 0 /\ d.score = 0 /\ d.lives = 3
                 /\ d.wrong = <<>>
                 /\ d.sid = last.sid
                 /\ d.questions = get_questions(bank, d.level)
                 /\ last.shown = d.questions[1].id
    /\ \A w \in WebUsers :
          (/\ last.fe = "web" /\ last.op = "start" /\ last.u = w
           /\ last.resp = "Question") =>
              LET q == webSess[w]
              IN /\ q.quiz
                 /\ q.current = 0 /\ q.score = 0 /\ q.wrong = <<>>
                 /\ q.sid = last.sid
                 /\ q.questions \in Perms(WebPool(bank, q.level))
                 /\ last.shown = q.questions[1].id

\* a bot start that replaced a session with one answer given and one to go
C18_Witness ==
    /\ last.fe = "bot" /\ last.op = "start" /\ last.resp = "Question"
    /\ last.over
    /\ last.sid = 2

\* C19: two results with the same score and the same total carry the same
\* level, whatever level each quiz was started with.
C19_LevelIgnoresFilter ==
    \A i, j \in DOMAIN results :
        (/\ results[i].score = results[j].score
         /\ results[i].total = results[j].total) =>
            results[i].level = results[j].level

\* a B1 quiz and an A1 quiz, both 2 out of 2, both recorded as C1
C19_Witness ==
    \E i, j \in DOMAIN results :
        /\ results[i].filter = "B1" /\ results[j].filter = "A1"
        /\ results[i].score = 2 /\ results[i].total = 2
        /\ results[j].score = 2 /\ results[j].total = 2
        /\ results[i].level = "C1" /\ results[j].level = "C1"

OutOfBounds(a) == a < 0 \/ a >= OptionCount

FinishedOutcome == {"Finished", "FinishedEarly"}

\* C21: whenever an answer is reported as finishing the quiz a result row of
\* that session is in the table, and an answer that stores no row reports no
\* finished outcome: a failed write ends the handler with the error.
C21_WriteFailureSurfaced ==
    /\ []((last.op = "answer" /\ last.resp \in FinishedOutcome) =>
             \E i \in DOMAIN results :
                 results[i].sid = last.sid /\ results[i].fe = last.fe)
    /\ [][(last'.op = "answer" /\ results' = results) =>
             last'.resp \notin FinishedOutcome]_vars

\* the last answer of a bot quiz while the table refuses writes
C21_Witness ==
    /\ last.fe = "bot" /\ last.op = "answer" /\ last.resp = "WriteFailed"
    /\ dbDown /\ results = <<>>
    /\ fsmData[last.u].current = Len(fsmData[last.u].questions)

\* C22: while a session stays the same session its cursor never goes down
\* and never moves by more than one in a step, and the step of a handled
\* answer moves it by exactly one, right or wrong.
C22_CursorStepsByOne ==
    [][/\ \A u \in BotUsers :
             (fsmData[u].quiz /\ fsmData'[u].quiz
              /\ fsmData'[u].sid = fsmData[u].sid) =>
                 /\ fsmData'[u].current - fsmData[u].current \in {0, 1}
                 /\ (/\ last'.fe = "bot" /\ last'.op = "answer" /\ last'.u = u
                     /\ last'.resp \in {"Next", "Finished", "FinishedEarly"}) =>
                       fsmData'[u].current - fsmData[u].current = 1
       /\ \A w \in WebUsers :
             (webSess[w].quiz /\ webSess'[w].quiz
              /\ webSess'[w].sid = webSess[w].sid) =>
                 /\ webSess'[w].current - webSess[w].current \in {0, 1}
                 /\ (/\ last'.fe = "web" /\ last'.op = "answer" /\ last'.u = w
                     /\ last'.resp \in {"Next", "Finished"}) =>
                       webSess'[w].current - webSess[w].current = 1]_vars

\* C23: a session held for a user while no handler of that user is running
\* is Active: it has questions, its cursor is below their number and, in the
\* bot, its lives are above 0.
C23_StoredSessionIsActive ==
    /\ \A w \in WebUsers :
          (webSess[w].quiz /\ ~webReq[w].sent) =>
              /\ webSess[w].questions # <<>>
              /\ webSess[w].current < Len(webSess[w].questions)
    /\ \A u \in BotUsers :
          (fsmData[u].quiz /\ pending[u] = 0) =>
              /\ fsmData[u].questions # <<>>
              /\ fsmData[u].current < Len(fsmData[u].questions)
              /\ fsmData[u].lives > 0


\* the session a web answer step worked on: the one its request carried
WebBefore(w) ==
    IF webReq[w].sent /\ ~webReq'[w].sent THEN webReq[w].sess ELSE webSess[w]

AnswerApplied == {"Next", "Finished", "FinishedEarly"}

\* C24: a correct answer adds exactly 1 to the score and leaves lives and the
\* wrong-answer list alone; an incorrect answer leaves the score, appends the
\* question answered to the wrong-answer list and (bot) takes exactly one
\* life; every other field of the session (question sequence, level filter,
\* identity) is unchanged, the cursor apart.
C24_AnswerFrame ==
    [][/\ \A u \in BotUsers :
            (/\ last'.fe = "bot" /\ last'.op = "answer" /\ last'.u = u
             /\ last'.resp \in AnswerApplied) =>
                LET d == fsmData[u]
                    q == d.questions[d.current + 1]
                IN fsmData'[u] =
                      IF last'.correct
                      THEN [d EXCEPT !.current = @ + 1, !.score = @ + 1]
                      ELSE [d EXCEPT !.current = @ + 1, !.lives = @ - 1,
                                     !.wrong = Append(@, q)]
       /\ \A w \in WebUsers :
            (/\ last'.fe = "web" /\ last'.op = "answer" /\ last'.u = w
             /\ last'.resp \in AnswerApplied) =>
                LET d == WebBefore(w)
                    q == d.questions[d.current + 1]
                IN webSess'[w] =
                      IF last'.correct
                      THEN [d EXCEPT !.current = @ + 1, !.score = @ + 1]
                      ELSE [d EXCEPT !.current = @ + 1,
                                     !.wrong = Append(@, q.id)]]_vars

C24_Witness ==
    /\ last.fe = "bot" /\ last.op = "answer" /\ last.resp = "Next"
    /\ ~last.correct
    /\ fsmData[last.u].score = 1
    /\ fsmData[last.u].lives = InitialLives - 1
    /\ Len(fsmData[last.u].wrong) = 1
    /\ fsmData[last.u].current = 2


\* wrong is the sequence of item(questions[k]) over strictly increasing
\* positions k of the questions answered so far
AnsweredSubsequence(wrong, questions, current, item(_)) ==
    \E f \in [1..Len(wrong) -> 1..current] :
        /\ \A i \in 1..Len(wrong) : wrong[i] = item(questions[f[i]])
        /\ \A i, j \in 1..Len(wrong) : i < j => f[i] < f[j]

WholeRow(q) == q

RowId(q) == q.id

\* C25: at every point of a session the wrong-answer list holds the questions
\* answered incorrectly so far in answer order: a subsequence of the answered
\* part of the question sequence without duplicates, of length cursor - score
\* and, in the bot, with lives = 3 - its length; an answer appends the
\* question answered exactly when it is incorrect.
C25_WrongListExact ==
    /\ [](/\ \A u \in BotUsers : fsmData[u].quiz =>
                LET d == fsmData[u]
                IN /\ d.current <= Len(d.questions)
                   /\ AnsweredSubsequence(d.wrong, d.questions, d.current,
                                          WholeRow)
                   /\ Len(d.wrong) = d.current - d.score
                   /\ d.lives = InitialLives - Len(d.wrong)
          /\ \A w \in WebUsers : webSess[w].quiz =>
                LET d == webSess[w]
                IN /\ d.current <= Len(d.questions)
                   /\ AnsweredSubsequence(d.wrong, d.questions, d.current,
                                          RowId)
                   /\ Len(d.wrong) = d.current - d.score)
    /\ [][/\ (last'.fe = "bot" /\ last'.op = "answer"
                 /\ last'.resp \in AnswerApplied) =>
              LET d == fsmData[last'.u]
                  e == fsmData'[last'.u]
              IN IF last'.correct THEN e.wrong = d.wrong
                 ELSE /\ Len(e.wrong) = Len(d.wrong) + 1
                      /\ e.wrong[Len(e.wrong)] = d.questions[d.current + 1]
          /\ (last'.fe = "web" /\ last'.op = "answer"
                 /\ last'.resp \in AnswerApplied) =>
              LET d == WebBefore(last'.u)
                  e == webSess'[last'.u]
              IN IF last'.correct THEN e.wrong = d.wrong
                 ELSE /\ Len(e.wrong) = Len(d.wrong) + 1
                      /\ e.wrong[Len(e.wrong)] = d.questions[d.current + 1].id]_vars

C25_Witness ==
    /\ last.fe = "bot" /\ last.op = "answer" /\ last.correct
    /\ fsmData[last.u].quiz
    /\ fsmData[last.u].current = 3
    /\ fsmData[last.u].score = 2
    /\ fsmData[last.u].wrong = <<fsmData[last.u].questions[2]>>


NoRepeats(questions) ==
    \A i, j \in 1..Len(questions) : i # j => questions[i].id # questions[j].id

\* C26: the question sequence of a session never changes while the session
\* lasts, whatever an admin does to the questions table; it holds no question
\* twice; a start presents questions[0] and an answer that does not end the
\* session moves the cursor by one and presents questions[new cursor].
C26_SequenceFixedInOrder ==
    /\ [](/\ \A u \in BotUsers : fsmData[u].quiz => NoRepeats(fsmData[u].questions)
          /\ \A w \in WebUsers : webSess[w].quiz => NoRepeats(webSess[w].questions))
    /\ [][/\ \A u \in BotUsers :
                (fsmData[u].quiz /\ fsmData'[u].quiz
                    /\ fsmData'[u].sid = fsmData[u].sid) =>
                        fsmData'[u].questions = fsmData[u].questions
          /\ \A w \in WebUsers :
                (webSess[w].quiz /\ webSess'[w].quiz
                    /\ webSess'[w].sid = webSess[w].sid) =>
                        webSess'[w].questions = webSess[w].questions
          /\ (last'.fe = "bot" /\ last'.op = "start"
                 /\ last'.resp = "Question") =>
                /\ fsmData'[last'.u].current = 0
                /\ last'.shown = fsmData'[last'.u].questions[1].id
          /\ (last'.fe = "web" /\ last'.op = "start"
                 /\ last'.resp = "Question") =>
                /\ webSess'[last'.u].current = 0
                /\ last'.shown = webSess'[last'.u].questions[1].id
          /\ (last'.fe = "bot" /\ last'.op = "answer"
                 /\ last'.resp = "Next") =>
                LET d == fsmData[last'.u]
                    e == fsmData'[last'.u]
                IN /\ e.current = d.current + 1
                   /\ last'.shown = d.questions[e.current + 1].id
          /\ (last'.fe = "web" /\ last'.op = "answer"
                 /\ last'.resp = "Next") =>
                LET d == WebBefore(last'.u)
                    e == webSess'[last'.u]
                IN /\ e.current = d.current + 1
                   /\ last'.shown = d.questions[e.current + 1].id]_vars

\* a question is presented after an admin deleted or edited its row
C26_Witness ==
    /\ last.op = "answer" /\ last.resp = "Next" /\ last.fe = "bot"
    /\ fsmData[last.u].current = 2
    /\ fsmData[last.u].questions[3] \notin bank
    /\ \A q \in bank : q.id # fsmData[last.u].questions[2].id

\* C27: the bot checks lives before the cursor: an answer that leaves no life
\* ends the session as early-end even when it answered the last question, an
\* answer that leaves lives and reaches the length ends it as completed, and
\* either way the step performs one finish: one result row, one finish_quiz.
C27_LivesCheckedFirst ==
    [][(last'.fe = "bot" /\ last'.op = "answer"
           /\ last'.resp \in AnswerApplied) =>
          LET e == fsmData'[last'.u]
              n == Len(e.questions)
          IN /\ e.lives <= 0 => last'.resp = "FinishedEarly"
             /\ (e.lives > 0 /\ e.current >= n) => last'.resp = "Finished"
             /\ (e.lives > 0 /\ e.current < n) => last'.resp = "Next"
             /\ IF last'.resp = "Next"
                THEN results' = results /\ pending' = pending
                ELSE /\ Len(results') = Len(results) + 1
                     /\ pending'[last'.u] = pending[last'.u] + 1]_vars

C27_Witness ==
    /\ last.fe = "bot" /\ last.op = "answer" /\ last.resp = "FinishedEarly"
    /\ fsmData[last.u].lives = 0
    /\ fsmData[last.u].current = Len(fsmData[last.u].questions)
    /\ Len(results) = 1
    /\ pending[last.u] = 1


\* C28: a start that presents a question holds exactly the rows of the
\* questions table that match its filter (all rows for the full quiz), each
\* once; and the order is randomized: whenever a filter matches two or more
\* rows, a start in either front-end can produce more than one order.
C28_PoolInRandomOrder ==
    /\ [][/\ (last'.fe = "bot" /\ last'.op = "start"
                 /\ last'.resp = "Question") =>
                \E level \in BotFilters :
                    /\ fsmData'[last'.u].level = level
                    /\ fsmData'[last'.u].questions
                          \in Perms(WebPool(bank, level))
          /\ (last'.fe = "web" /\ last'.op = "start"
                 /\ last'.resp = "Question") =>
                \E level \in WebFilters :
                    /\ webSess'[last'.u].level = level
                    /\ webSess'[last'.u].questions
                          \in Perms(WebPool(bank, level))]_vars
    /\ [](\A level \in SmallFilters :
            LET pool == WebPool(bank, level)
            IN (startsLeft > 0 /\ Cardinality(pool) >= 2) =>
                  \E o1, o2 \in Perms(pool) :
                     /\ o1 # o2
                     /\ \A u \in SoloBot :
                           /\ ENABLED (BotStartQuiz(u, level)
                                          /\ fsmData'[u].questions = o1)
                           /\ ENABLED (BotStartQuiz(u, level)
                                          /\ fsmData'[u].questions = o2)
                     /\ \A w \in WebUsers :
                           /\ ENABLED (WebStartQuiz(w, level)
                                          /\ webSess'[w].questions = o1)
                           /\ ENABLED (WebStartQuiz(w, level)
                                          /\ webSess'[w].questions = o2))


\* C29: whatever an admin did to the questions table (the bot's add and edit
\* dialogs, CSV import, the web POST and PUT), every stored question has at
\* least 2 options and 0 <= correct < number of options.
C29_StoredQuestionsWellFormed ==
    \A q \in bank : q.nopts >= 2 /\ 0 <= q.correct /\ q.correct < q.nopts


\* C30: the web quiz has no lives: a session over n questions answers
\* "finished" on the n-th answer and on no earlier one, however many answers
\* were wrong, no result row of a session exists before its n-th answer, and
\* the row stored has total = n.
C30_WebFinishesOnLastOnly ==
    /\ [](\A w \in WebUsers :
            (webSess[w].quiz
                /\ webSess[w].current < Len(webSess[w].questions)) =>
                \A i \in DOMAIN results :
                    ~(results[i].fe = "web" /\ results[i].sid = webSess[w].sid))
    /\ [][(last'.fe = "web" /\ last'.op = "answer"
              /\ last'.resp \in AnswerApplied) =>
             LET d == WebBefore(last'.u)
                 n == Len(d.questions)
             IN /\ last'.resp = "Finished" <=> d.current + 1 = n
                /\ last'.resp = "Finished" =>
                      /\ Len(results') = Len(results) + 1
                      /\ results'[Len(results')].total = n
                      /\ results'[Len(results')].sid = d.sid]_vars

C30_Witness ==
    /\ last.fe = "web" /\ last.op = "answer" /\ last.resp = "Finished"
    /\ webSess[last.u].current = 4
    /\ Len(webSess[last.u].questions) = 4
    /\ Len(webSess[last.u].wrong) = 4
    /\ Len(results) = 1 /\ results[1].total = 4 /\ results[1].score = 0


\* C31: results of a web user and of a Telegram user are never stored under
\* the same user_id: a web row carries its user's id plus 10000, and no
\* Telegram user with a row has that id.
C31_NoIdCollision ==
    /\ \A i \in DOMAIN results :
          results[i].fe = "web" =>
              \E w \in WebUsers : results[i].uid = w + WebIdOffset
    /\ \A i, j \in DOMAIN results :
          results[i].uid = results[j].uid => results[i].fe = results[j].fe


\* C32: a daily bonus claim is answered "bonus received" exactly when it
\* raised the balance, that is on the user's first claim of the date, and
\* "already claimed" on the later ones.
C32_FreshGrantReported ==
    [][(last'.fe = "bot" /\ last'.op = "bonus") =>
          /\ last'.resp = "BonusGranted" <=>
                hints'[last'.u] = hints[last'.u] + 1
          /\ last'.resp = "BonusGranted" <=>
                <<last'.u, today>> \notin bonusRows
          /\ last'.resp = "AlreadyClaimed" <=>
                <<last'.u, today>> \in bonusRows]_vars


Sids == 1..(MaxStarts + 1)

Recorded(fe, s) ==
    \E i \in DOMAIN results : results[i].fe = fe /\ results[i].sid = s

\* C33: a session never takes more answers than it has questions, a session
\* at its last answer (or, in the bot, out of lives) has its result recorded,
\* and a user who keeps answering cannot keep a session going forever: every
\* started session gets its result recorded, unless the user replaces it by
\* a new start.
C33_SessionsTerminate ==
    /\ [](/\ \A u \in BotUsers : (fsmData[u].quiz /\ fsmData[u].sid > 0) =>
                /\ fsmData[u].current <= Len(fsmData[u].questions)
                /\ (\/ fsmData[u].current = Len(fsmData[u].questions)
                    \/ fsmData[u].lives <= 0) => Recorded("bot", fsmData[u].sid)
          /\ \A w \in WebUsers : (webSess[w].quiz /\ webSess[w].sid > 0) =>
                /\ webSess[w].current <= Len(webSess[w].questions)
                /\ webSess[w].current = Len(webSess[w].questions) =>
                      Recorded("web", webSess[w].sid))
    /\ \A s \in Sids :
          /\ \A u \in SoloBot :
                (fsmData[u].quiz /\ fsmData[u].sid = s) ~>
                    (Recorded("bot", s) \/ (fsmData[u].quiz /\ fsmData[u].sid > s))
          /\ \A w \in WebUsers :
                (webSess[w].quiz /\ webSess[w].sid = s) ~>
                    (Recorded("web", s) \/ (webSess[w].quiz /\ webSess[w].sid > s))


LevelComputed == {"Finished", "FinishedEarly", "WriteFailed"}

\* C34: the percentage is never computed over a total of 0: every answer
\* that reaches the level computation works on a session with at least one
\* question, every stored result has total >= 1, and an answer to a session
\* with no questions (a start on an empty pool) stops before the computation.
C34_TotalNeverZero ==
    /\ [](\A i \in DOMAIN results : results[i].total >= 1)
    /\ [][/\ (last'.fe = "bot" /\ last'.op = "answer"
                 /\ last'.resp \in LevelComputed) =>
                Len(fsmData[last'.u].questions) >= 1
          /\ (last'.fe = "web" /\ last'.op = "answer"
                 /\ last'.resp \in LevelComputed) =>
                Len(WebBefore(last'.u).questions) >= 1
          /\ (last'.fe = "web" /\ last'.op = "answer"
                 /\ WebBefore(last'.u).quiz
                 /\ WebBefore(last'.u).questions = <<>>) =>
                (last'.resp = "Crash" /\ results' = results)]_vars

\* an answer posted to the session a start on an empty level left behind
C34_Witness ==
    /\ last.fe = "web" /\ last.op = "answer" /\ last.resp = "Crash"
    /\ webSess[last.u].quiz
    /\ webSess[last.u].questions = <<>>
    /\ results = <<>>


WrongCount(questions, answers) ==
    Cardinality({k \in 1..Len(questions) : ~is_correct(answers[k], questions[k])})

\* what a results row says of the quiz, whoever took it
Recording(row) ==
    [score |-> row.score, total |-> row.total, level |-> row.level,
     wrong |-> row.wrong, fmt |-> row.fmt]

\* C35: given the same question sequence and the same answers, fewer than 3
\* of them wrong, the bot and the web finish on the same answer and record
\* the same score, total, level and wrong-answer list.
C35_FrontEndsAgree ==
    (last.op = "replay"
        /\ WrongCount(probe.questions, probe.answers) < InitialLives) =>
            /\ probe.bot.at = probe.web.at
            /\ Len(probe.bot.rows) = 1 /\ Len(probe.web.rows) = 1
            /\ Recording(probe.bot.rows[1]) = Recording(probe.web.rows[1])


QuizGoerStates == {"none", "taking_quiz", "waiting_report_reason"}

\* C36: a Telegram user outside ADMIN_IDS never holds an admin dialog state
\* other than waiting_report_reason, and no step of such a user changes the
\* questions table or the banned users.
C36_NonAdminCannotMutate ==
    /\ [](\A u \in TelegramUsers \ ADMIN_IDS : fsmState[u] \in QuizGoerStates)
    /\ [][(bank' # bank \/ banned' # banned \/ deletes' # deletes) =>
             (last'.fe = "bot" /\ last'.u \in ADMIN_IDS)]_vars

\* the admin has changed the table and banned a user; the banned user's tap
\* on a panel button is ignored
C36_Witness ==
    /\ last.op = "panel" /\ last.resp = "Ignored"
    /\ last.u \notin ADMIN_IDS
    /\ fsmState[last.u] = "taking_quiz"
    /\ bank # SampleBank
    /\ banned # {}

=============================================================================
